---- MODULE Spec2Model ----
(***************************************************************************)
(* A model of sim_hw.py: the quadcopter Robot (state, update, update_wind, *)
(* control), the per-tick driver control_propellers and the two driver     *)
(* paths main and generate_training_data.                                  *)
(*                                                                         *)
(* numpy's float64 numbers are modelled as decimal floating-point numbers  *)
(* with Digits significant digits, every operation correctly rounded       *)
(* (round half away from zero), plus NaN.  Exponents are unbounded, so     *)
(* overflow and underflow do not occur, and zero carries no sign.          *)
(***************************************************************************)
EXTENDS Integers, Sequences, FiniteSets, TLC

(***************************************************************************)
(* Floating-point numbers                                                  *)
(***************************************************************************)

\* significant decimal digits kept by every floating-point operation
Digits == 3

P10 == <<1, 10, 100, 1000, 10000, 100000, 1000000, 10000000, 100000000, 1000000000>>

Pow10(k) == P10[k + 1]

Abs(i) == IF i < 0 THEN -i ELSE i

Sgn(i) == IF i < 0 THEN -1 ELSE 1

NDigits(n) ==
    IF n < 10 THEN 1 ELSE IF n < 100 THEN 2 ELSE IF n < 1000 THEN 3
    ELSE IF n < 10000 THEN 4 ELSE IF n < 100000 THEN 5
    ELSE IF n < 1000000 THEN 6 ELSE IF n < 10000000 THEN 7
    ELSE IF n < 100000000 THEN 8 ELSE IF n < 1000000000 THEN 9 ELSE 10

NaN == [nan |-> TRUE, m |-> 0, e |-> 0]

Zero == [nan |-> FALSE, m |-> 0, e |-> 0]

\* the canonical form of m * 10^e: no trailing zero in the mantissa
RECURSIVE Strip(_, _)
Strip(m, e) ==
    IF m = 0 THEN Zero
    ELSE IF m % 10 = 0 THEN Strip(m \div 10, e + 1)
    ELSE [nan |-> FALSE, m |-> m, e |-> e]

\* s * a * 10^e (s a sign, a >= 0) rounded to Digits significant digits:
\* the last k digits of a are dropped, half a unit rounding away from zero
FlShift(s, a, e, k) ==
    IF k <= 0 THEN Strip(s * a, e)
    ELSE Strip(s * (a \div Pow10(k) + (IF 2 * (a % Pow10(k)) >= Pow10(k) THEN 1 ELSE 0)),
               e + k)

Fl(s, a, e) == FlShift(s, a, e, NDigits(a) - Digits)

\* t * 10^e rounded, for an integer t
FlInt(t, e) == Fl(Sgn(t), Abs(t), e)

\* the float nearest to the literal m * 10^e
F(m, e) == FlInt(m, e)

FNeg(x) == IF x.nan THEN NaN ELSE [x EXCEPT !.m = -x.m]

FAbs(x) == IF x.nan THEN NaN ELSE [x EXCEPT !.m = Abs(x.m)]

\* hm * 10^he + lo, where he is at most Digits - 1 above lo.e or anywhere below
FAddAligned(hm, he, lo) ==
    IF he - lo.e > Digits + 1 THEN Strip(hm, he)
    ELSE IF he >= lo.e THEN FlInt(hm * Pow10(he - lo.e) + lo.m, lo.e)
    ELSE FlInt(hm + lo.m * Pow10(lo.e - he), he)

\* hi + lo, hi.e >= lo.e: hi's mantissa is first padded to Digits digits
FAddPad(hi, lo, pad) == FAddAligned(hi.m * Pow10(pad), hi.e - pad, lo)

FAddHiLo(hi, lo) == FAddPad(hi, lo, Digits - NDigits(Abs(hi.m)))

\* x + y
FAdd(x, y) ==
    IF x.nan \/ y.nan THEN NaN
    ELSE IF x.m = 0 THEN y
    ELSE IF y.m = 0 THEN x
    ELSE IF x.e >= y.e THEN FAddHiLo(x, y)
    ELSE FAddHiLo(y, x)

FSub(x, y) == FAdd(x, FNeg(y))

\* x * y
FMul(x, y) ==
    IF x.nan \/ y.nan THEN NaN
    ELSE Fl(Sgn(x.m) * Sgn(y.m), Abs(x.m) * Abs(y.m), x.e + y.e)

FDivPad(x, y, pad) ==
    Fl(Sgn(x.m) * Sgn(y.m),
       (Abs(x.m) * Pow10(pad) * Pow10(Digits + 1)) \div Abs(y.m),
       x.e - pad - (Digits + 1) - y.e)

\* x / y; 0/0 is nan (numpy warns and goes on).  A non-zero x over zero is
\* +-inf in numpy; it is given as NaN here: every divisor of the program is a
\* norm, which is zero only when the vector it divides is zero.
FDiv(x, y) ==
    IF x.nan \/ y.nan \/ y.m = 0 THEN NaN
    ELSE IF x.m = 0 THEN Zero
    ELSE FDivPad(x, y, Digits - NDigits(Abs(x.m)))

\* the integer square root of n, between lo and hi
RECURSIVE ISqrtIn(_, _, _), ISqrtMid(_, _, _, _)
ISqrtIn(n, lo, hi) == IF lo >= hi THEN lo ELSE ISqrtMid(n, lo, hi, (lo + hi + 1) \div 2)

ISqrtMid(n, lo, hi, mid) ==
    IF mid * mid <= n THEN ISqrtIn(n, mid, hi) ELSE ISqrtIn(n, lo, mid - 1)

ISqrt(n) == ISqrtIn(n, 0, 46340)

\* the root r = ISqrt(a) of a, rounded to Digits digits
FSqrtRound(a, r, e2) ==
    IF NDigits(r) <= Digits THEN Strip(r + (IF a - r * r > r THEN 1 ELSE 0), e2)
    ELSE Fl(1, r, e2)

FSqrtOf(a, e2) == FSqrtRound(a, ISqrt(a), e2)

\* the mantissa is scaled to 2 * Digits or 2 * Digits + 1 digits, the exponent left even
FSqrtShift(x, k0) ==
    IF (x.e - k0) % 2 = 0 THEN FSqrtOf(x.m * Pow10(k0), (x.e - k0) \div 2)
    ELSE FSqrtOf(x.m * Pow10(k0 + 1), (x.e - k0 - 1) \div 2)

\* sqrt(x); nan for a negative x
FSqrt(x) ==
    IF x.nan \/ x.m < 0 THEN NaN
    ELSE IF x.m = 0 THEN Zero
    ELSE FSqrtShift(x, 2 * Digits - NDigits(x.m))

FLt(x, y) == ~x.nan /\ ~y.nan /\ FSub(x, y).m < 0

FLe(x, y) == ~x.nan /\ ~y.nan /\ FSub(x, y).m <= 0

\* np.max([x, y]): nan if either is
FMax(x, y) == IF x.nan \/ y.nan THEN NaN ELSE IF FLt(x, y) THEN y ELSE x

\* the integer nearest to x (x small)
FRoundInt(x) ==
    IF x.e >= 0 THEN x.m * Pow10(x.e)
    ELSE IF -x.e > 9 THEN 0
    ELSE Sgn(x.m) * ((2 * Abs(x.m) + Pow10(-x.e)) \div (2 * Pow10(-x.e)))

\* the float of the integer i
FInt(i) == FlInt(i, 0)

One == FInt(1)

Two == FInt(2)

Half == F(5, -1)

Pi == F(314159265, -8)

TwoPi == FMul(Two, Pi)

PiSquared == FMul(Pi, Pi)

(***************************************************************************)
(* Vectors and matrices of floats (numpy arrays), as sequences             *)
(***************************************************************************)

\* a function on 1..n as an array (a tuple, its elements evaluated once)
Arr(f) == f \o <<>>

Vec(ms, e) == Arr([i \in DOMAIN ms |-> F(ms[i], e)])

Zeros(n) == Arr([i \in 1..n |-> Zero])

VecAdd(a, b) == Arr([i \in DOMAIN a |-> FAdd(a[i], b[i])])

VecSub(a, b) == Arr([i \in DOMAIN a |-> FSub(a[i], b[i])])

VecNeg(a) == Arr([i \in DOMAIN a |-> FNeg(a[i])])

\* c * v and v / c, for a scalar c
VecScale(c, v) == Arr([i \in DOMAIN v |-> FMul(c, v[i])])

VecDiv(v, c) == Arr([i \in DOMAIN v |-> FDiv(v[i], c)])

VecHasNaN(v) == \E i \in DOMAIN v : v[i].nan

\* np.sum / np.dot: the terms added left to right
RECURSIVE SumTo(_, _)
SumTo(v, n) == IF n = 1 THEN v[1] ELSE FAdd(SumTo(v, n - 1), v[n])

Sum(v) == SumTo(v, Len(v))

Dot(a, b) == Sum(Arr([i \in DOMAIN a |-> FMul(a[i], b[i])]))

\* np.linalg.norm
Norm(v) == FSqrt(Dot(v, v))

\* np.cross
Cross(a, b) ==
    << FSub(FMul(a[2], b[3]), FMul(a[3], b[2])),
       FSub(FMul(a[3], b[1]), FMul(a[1], b[3])),
       FSub(FMul(a[1], b[2]), FMul(a[2], b[1])) >>

\* M @ v
MatVec(M, v) == Arr([i \in DOMAIN M |-> Dot(M[i], v)])

MatScale(c, M) == Arr([i \in DOMAIN M |-> VecScale(c, M[i])])

Transpose(M) == Arr([i \in 1..3 |-> Arr([j \in 1..3 |-> M[j][i]])])

\* c * np.eye(3)
Eye3(c) == Arr([i \in 1..3 |-> Arr([j \in 1..3 |-> IF i = j THEN c ELSE Zero])])

(***************************************************************************)
(* np.sin and np.cos: the argument reduced to [-pi, pi], then Bhaskara's   *)
(* rational approximations, which are exact at 0 (sin 0 = 0, cos 0 = 1)    *)
(***************************************************************************)

Reduce(x) == FSub(x, FMul(FInt(FRoundInt(FDiv(x, TwoPi))), TwoPi))

\* sin a from p = a * (pi - a), 0 <= a <= pi
SinOfProduct(p) ==
    FDiv(FMul(FInt(16), p), FSub(FMul(FInt(5), PiSquared), FMul(FInt(4), p)))

SinHalfTurn(a) == SinOfProduct(FMul(a, FSub(Pi, a)))

SinReduced(y) == IF y.m < 0 THEN FNeg(SinHalfTurn(FAbs(y))) ELSE SinHalfTurn(y)

Sin(x) == IF x.nan THEN NaN ELSE SinReduced(Reduce(x))

\* cos b from b2 = b * b, |b| <= pi / 2
CosOfSquare(b2) == FDiv(FSub(PiSquared, FMul(FInt(4), b2)), FAdd(PiSquared, b2))

CosQuarterTurn(b) == CosOfSquare(FMul(b, b))

CosReduced(a) ==
    IF FLe(a, FMul(Half, Pi)) THEN CosQuarterTurn(a) ELSE FNeg(CosQuarterTurn(FSub(Pi, a)))

Cos(x) == IF x.nan THEN NaN ELSE CosReduced(FAbs(Reduce(x)))

(***************************************************************************)
(* Quaternions, [w, x, y, z]                                               *)
(***************************************************************************)

\* q * p
quat_mult(q, p) ==
    << FSub(FSub(FSub(FMul(p[1], q[1]), FMul(q[2], p[2])), FMul(q[3], p[3])), FMul(q[4], p[4])),
       FSub(FAdd(FAdd(FMul(q[2], p[1]), FMul(q[1], p[2])), FMul(q[3], p[4])), FMul(q[4], p[3])),
       FSub(FAdd(FAdd(FMul(q[3], p[1]), FMul(q[1], p[3])), FMul(q[4], p[2])), FMul(q[2], p[4])),
       FSub(FAdd(FAdd(FMul(q[4], p[1]), FMul(q[1], p[4])), FMul(q[2], p[3])), FMul(q[3], p[2])) >>

quat_conjugate(q) == << q[1], FNeg(q[2]), FNeg(q[3]), FNeg(q[4]) >>

\* v / norm: a zero v gives 0/0 = nan in every component, and no exception
normalized(v) == VecDiv(v, Norm(v))

\* line 27, from the normalised v_from and v_mid
QuatFromMid(v_from, v_mid) == << Dot(v_from, v_mid) >> \o Cross(v_from, v_mid)

\* line 26, from the normalised v_from and v_to
QuatFromUnit(v_from, v_to) == QuatFromMid(v_from, normalized(VecAdd(v_from, v_to)))

quaternion_from_vectors(v_from, v_to) == QuatFromUnit(normalized(v_from), normalized(v_to))

\* scipy's Rotation.from_quat([x, y, z, w]).as_matrix(): the quaternion is
\* normalised first; a zero quaternion is refused with a ValueError.
ZeroNormQuat(q) == ~VecHasNaN(q) /\ Norm(q).m = 0

RotOfProducts(x2, y2, z2, w2, xy, zw, xz, yw, yz, xw) ==
    << << FAdd(FSub(FSub(x2, y2), z2), w2), FMul(Two, FSub(xy, zw)), FMul(Two, FAdd(xz, yw)) >>,
       << FMul(Two, FAdd(xy, zw)), FAdd(FSub(FSub(y2, x2), z2), w2), FMul(Two, FSub(yz, xw)) >>,
       << FMul(Two, FSub(xz, yw)), FMul(Two, FAdd(yz, xw)), FAdd(FSub(FSub(z2, x2), y2), w2) >> >>

RotOfUnit(w, x, y, z) ==
    RotOfProducts(FMul(x, x), FMul(y, y), FMul(z, z), FMul(w, w), FMul(x, y),
                  FMul(z, w), FMul(x, z), FMul(y, w), FMul(y, z), FMul(x, w))

RotOfUnitQuat(u) == RotOfUnit(u[1], u[2], u[3], u[4])

RotMatrix(q) == RotOfUnitQuat(VecDiv(q, Norm(q)))

(***************************************************************************)
(* Constants for state indices (0-based, as in the source)                 *)
(***************************************************************************)

NO_STATES == 13

IDX_POS_X == 0

IDX_POS_Z == 2

IDX_VEL_X == 3

IDX_VEL_Z == 5

IDX_QUAT_W == 6

IDX_QUAT_Z == 9

IDX_OMEGA_X == 10

IDX_OMEGA_Z == 12

\* state[lo:hi+1]
Slice(state, lo, hi) == Arr([i \in 1..(hi - lo + 1) |-> state[lo + i]])

\* state with state[lo:hi+1] = v
SetSlice(state, lo, hi, v) ==
    Arr([i \in DOMAIN state |-> IF i > lo /\ i <= hi + 1 THEN v[i - lo] ELSE state[i]])

(***************************************************************************)
(* class Robot.  An object is a record of its attributes; attrs holds the  *)
(* names of the attributes that are assigned only after construction and   *)
(* exist so far (a read of one not in attrs raises AttributeError).        *)
(***************************************************************************)

reset_state_and_input(init_xyz, init_quat_wxyz) ==
    LET state0 == Zeros(NO_STATES)
        s1 == SetSlice(state0, IDX_POS_X, IDX_POS_Z, init_xyz)
        s2 == SetSlice(s1, IDX_VEL_X, IDX_VEL_Z, <<Zero, Zero, Zero>>)
        s3 == SetSlice(s2, IDX_QUAT_W, IDX_QUAT_Z, init_quat_wxyz)
    IN  SetSlice(s3, IDX_OMEGA_X, IDX_OMEGA_Z, <<Zero, Zero, Zero>>)

\* Robot()
Robot ==
    LET arm == F(25, -2)
        h   == F(5, -2)
    IN  [ m |-> One,
          arm_length |-> arm,
          height |-> h,
          body_frame |-> << <<arm, Zero, Zero, One>>,
                            <<Zero, arm, Zero, One>>,
                            <<FNeg(arm), Zero, Zero, One>>,
                            <<Zero, FNeg(arm), Zero, One>>,
                            <<Zero, Zero, Zero, One>>,
                            <<Zero, Zero, h, One>> >>,
          J |-> Eye3(F(25, -3)),
          J_inv |-> Eye3(FDiv(One, F(25, -3))),
          constant_thrust |-> F(10, -4),
          constant_drag |-> F(10, -6),
          omega_motors |-> Zeros(4),
          state |-> reset_state_and_input(<<One, Zero, Zero>>, <<One, Zero, Zero, Zero>>),
          time |-> Zero,
          attrs |-> {},
          F0 |-> Zeros(3),
          omega_w |-> Zero,
          phi |-> Zero,
          wind_force |-> Zeros(3) ]

\* the outcome of a method call: the object after it, the exception it raised
\* ("none" if it returned) and the value it returned
Outcome(obj, exc, ret) == [obj |-> obj, exc |-> exc, ret |-> ret]

\* [0, 0, -9.8]
RoundedGravity == <<Zero, Zero, F(-98, -1)>>

\* [0, 0, -9.81]
Gravity == <<Zero, Zero, F(-981, -2)>>

\* the slices of the state vector the methods read
Pos(state) == Slice(state, IDX_POS_X, IDX_POS_Z)

Vel(state) == Slice(state, IDX_VEL_X, IDX_VEL_Z)

Quat(state) == Slice(state, IDX_QUAT_W, IDX_QUAT_Z)

Omega(state) == Slice(state, IDX_OMEGA_X, IDX_OMEGA_Z)

\* omegas_motor ** 2
Squares(omegas_motor) == Arr([i \in 1..4 |-> FMul(omegas_motor[i], omegas_motor[i])])

\* lines 101-107: thrust and body torques from the squared rotor speeds sq
ForwardOfSquares(self, sq) ==
    << FMul(self.constant_thrust, Sum(sq)),
       FMul(FMul(FMul(self.constant_thrust, FSub(sq[4], sq[2])), Two), self.arm_length),
       FMul(FMul(FMul(self.constant_thrust, FSub(sq[3], sq[1])), Two), self.arm_length),
       FMul(self.constant_drag, FSub(FAdd(FSub(sq[1], sq[2]), sq[3]), sq[4])) >>

ForwardUpdate(self, omegas_motor) == ForwardOfSquares(self, Squares(omegas_motor))

\* line 117 left out: the quaternion is kept as the Euler step left it
KeepQuat(state, q) == state

\* line 117: self.state[IDX_QUAT_W:IDX_QUAT_Z+1] /= np.linalg.norm(...)
RenormalizeQuat(state, q) == SetSlice(state, IDX_QUAT_W, IDX_QUAT_Z, VecDiv(q, Norm(q)))

Renormalize(state) == RenormalizeQuat(state, Quat(state))

\* line 109: 1 / self.m * R @ f_b + [0, 0, -9.81]
VDot(self, R, f_b) == VecAdd(MatVec(MatScale(FDiv(One, self.m), R), f_b), Gravity)

\* lines 110-112
OmegaDot(self, omega, tau_b) ==
    MatVec(self.J_inv, VecAdd(Cross(MatVec(self.J, omega), omega), tau_b))

QDot(q, omega) == VecScale(FDiv(One, Two), quat_mult(q, <<Zero>> \o omega))

\* lines 109-114, from the rotation matrix R and <<thrust, tau_x, tau_y, tau_z>>
XDotOf(self, R, ft) ==
    Vel(self.state) \o VDot(self, R, <<Zero, Zero, ft[1]>>)
        \o QDot(Quat(self.state), Omega(self.state)) \o OmegaDot(self, Omega(self.state), Tail(ft))

XDot(self, omegas_motor) ==
    XDotOf(self, RotMatrix(Quat(self.state)), ForwardUpdate(self, omegas_motor))

\* line 116: self.state += dt * x_dot
Euler(state, x_dot, dt) == VecAdd(state, VecScale(dt, x_dot))

update(self, omegas_motor, dt) ==
    IF ZeroNormQuat(Quat(self.state)) THEN Outcome(self, "ValueError", <<>>)
    ELSE Outcome([self EXCEPT !.state = Renormalize(Euler(self.state, XDot(self, omegas_motor), dt)),
                              !.time = FAdd(self.time, dt)], "none", <<>>)

\* lines 128-134 with the arm length taken once, as the mixer's matrix takes it
ForwardWindSingleArm(self, sq) ==
    << FMul(self.constant_thrust, Sum(sq)),
       FMul(FMul(self.constant_thrust, FSub(sq[4], sq[2])), self.arm_length),
       FMul(FMul(self.constant_thrust, FSub(sq[3], sq[1])), self.arm_length),
       FMul(self.constant_drag, FSub(FAdd(FSub(sq[1], sq[2]), sq[3]), sq[4])) >>

\* lines 128-134
ForwardWindOfSquares(self, sq) ==
    << FMul(self.constant_thrust, Sum(sq)),
       FMul(FMul(FMul(self.constant_thrust, FSub(sq[4], sq[2])), Two), self.arm_length),
       FMul(FMul(FMul(self.constant_thrust, FSub(sq[3], sq[1])), Two), self.arm_length),
       FMul(self.constant_drag, FSub(FAdd(FSub(sq[1], sq[2]), sq[3]), sq[4])) >>

ForwardUpdateWind(self, omegas_motor) == ForwardWindOfSquares(self, Squares(omegas_motor))

\* line 140: self.F0 * np.sin(self.omega_w * self.time + self.phi)
WindForce(F0, omega_w, time, phi) == VecScale(Sin(FAdd(FMul(omega_w, time), phi)), F0)

\* line 141: 1 / self.m * (R @ f_b + self.wind_force) + [0, 0, -9.81]
VDotWind(self, R, f_b, wind_force) ==
    VecAdd(VecScale(FDiv(One, self.m), VecAdd(MatVec(R, f_b), wind_force)), Gravity)

\* lines 141-146
XDotWindOf(self, R, ft, wind_force) ==
    Vel(self.state) \o VDotWind(self, R, <<Zero, Zero, ft[1]>>, wind_force)
        \o QDot(Quat(self.state), Omega(self.state)) \o OmegaDot(self, Omega(self.state), Tail(ft))

XDotWind(self, omegas_motor, wind_force) ==
    XDotWindOf(self, RotMatrix(Quat(self.state)), ForwardUpdateWind(self, omegas_motor), wind_force)

\* line 149
RenormalizeWindQuat(state, q) == SetSlice(state, IDX_QUAT_W, IDX_QUAT_Z, VecDiv(q, Norm(q)))

RenormalizeWind(state) == RenormalizeWindQuat(state, Quat(state))

\* lines 140-150, once self.phi is set and self.F0 and self.omega_w were found
UpdateWindWith(self, omegas_motor, dt, wind_force) ==
    [self EXCEPT !.wind_force = wind_force,
                 !.attrs = @ \cup {"wind_force"},
                 !.state = RenormalizeWind(Euler(self.state, XDotWind(self, omegas_motor, wind_force), dt)),
                 !.time = FAdd(self.time, dt)]

\* line 139: self.phi = 0
SetPhi(self) == [self EXCEPT !.phi = Zero, !.attrs = @ \cup {"phi"}]

update_wind(self, omegas_motor, dt) ==
    IF ZeroNormQuat(Quat(self.state)) THEN Outcome(self, "ValueError", <<>>)
    ELSE IF ~({"F0", "omega_w"} \subseteq self.attrs)
    THEN Outcome(SetPhi(self), "AttributeError", <<>>)
    ELSE Outcome(UpdateWindWith(SetPhi(self), omegas_motor, dt,
                                WindForce(self.F0, self.omega_w, self.time, Zero)),
                 "none", <<>>)

\* lines 160-164: the world-frame force the position controller asks for
DesiredForce(self, p_d_I) ==
    LET k_p == FInt(1)
        k_d == FInt(10)
        v_r == VecScale(FNeg(k_p), VecSub(Pos(self.state), p_d_I))
        a == VecAdd(VecScale(FNeg(k_d), VecSub(Vel(self.state), v_r)), <<Zero, Zero, F(981, -2)>>)
    IN  VecScale(self.m, a)

\* lines 171-172: the shorter of the two rotations
ShortestPath(q_err) == IF FLt(q_err[1], Zero) THEN VecNeg(q_err) ELSE q_err

\* lines 174-177, from the error quaternion and the body rates
TorqueOfError(self, q_err, omega_b) ==
    LET k_q == FInt(20)
        k_omega == FInt(100)
        omega_ref == VecScale(FMul(FNeg(k_q), Two), Tail(q_err))
        alpha == VecScale(FNeg(k_omega), VecSub(omega_b, omega_ref))
    IN  VecAdd(MatVec(self.J, alpha), Cross(omega_b, MatVec(self.J, omega_b)))

\* lines 169-170
QuatError(q, f) ==
    quat_mult(quat_conjugate(quaternion_from_vectors(<<Zero, Zero, One>>, normalized(f))), q)

\* lines 169-177: the body torque the attitude controller asks for
DesiredTorque(self, f) ==
    TorqueOfError(self, ShortestPath(QuatError(Quat(self.state), f)), Omega(self.state))

\* lines 180-185
MixerB(self) ==
    LET kt == self.constant_thrust
        kd == self.constant_drag
        l  == self.arm_length
    IN  << <<kt, kt, kt, kt>>,
           <<Zero, FMul(FNeg(l), kt), Zero, FMul(l, kt)>>,
           <<FMul(FNeg(l), kt), Zero, FMul(l, kt), Zero>>,
           <<kd, FNeg(kd), kd, FNeg(kd)>> >>

\* the inverse of [[a',a',a',a'],[0,-b',0,b'],[-b',0,b',0],[c',-c',c',-c']]
\* from a = 1/(4a'), b = 1/(2b'), c = 1/(4c')
InverseOf(a, b, c) ==
    << <<a, Zero, FNeg(b), c>>,
       <<a, FNeg(b), Zero, FNeg(c)>>,
       <<a, Zero, b, c>>,
       <<a, b, Zero, FNeg(c)>> >>

\* line 186: np.linalg.inv(B), by the closed form of the inverse of a matrix of B's shape
MixerBInv(B) ==
    InverseOf(FDiv(One, FMul(FInt(4), B[1][1])),
              FDiv(One, FMul(Two, B[2][4])),
              FDiv(One, FMul(FInt(4), B[4][1])))

\* line 187: the squared rotor speeds the mixer solves for
MixerSquares(self, thrust, tau) == MatVec(MixerBInv(MixerB(self)), <<thrust>> \o tau)

\* np.clip(x, 0, None): nan stays nan
Clip0(x) == IF x.nan THEN NaN ELSE IF x.m < 0 THEN Zero ELSE x

\* line 188: np.sqrt(np.clip(omega_motor_square, 0, None))
MixerRoots(omega_motor_square) == Arr([i \in 1..4 |-> FSqrt(Clip0(omega_motor_square[i]))])

\* lines 180-189: the rotor speeds for a thrust and a torque
Mixer(self, thrust, tau) == MixerRoots(MixerSquares(self, thrust, tau))

\* lines 165-166: the thrust along the body z axis, never negative
Thrust(self, f) == FMax(Zero, MatVec(Transpose(RotMatrix(Quat(self.state))), f)[3])

\* lines 165-189, from the desired force f
ControlOfForce(self, f) == Mixer(self, Thrust(self, f), DesiredTorque(self, f))

\* the value control returns
ControlValue(self, p_d_I) == ControlOfForce(self, DesiredForce(self, p_d_I))

\* a control that keeps what it returns in self.omega_motors
StoreAndReturn(self, omega_motor) ==
    Outcome([self EXCEPT !.omega_motors = omega_motor], "none", omega_motor)

control_storing(self, p_d_I) ==
    IF ZeroNormQuat(Quat(self.state))
    THEN Outcome(self, "ValueError", <<>>)
    ELSE StoreAndReturn(self, ControlValue(self, p_d_I))

control(self, p_d_I) ==
    IF ZeroNormQuat(Quat(self.state))
    THEN Outcome(self, "ValueError", <<>>)
    ELSE Outcome(self, "none", ControlValue(self, p_d_I))

(***************************************************************************)
(* The drivers                                                             *)
(***************************************************************************)

PLAYBACK_SPEED == 1

CONTROL_FREQUENCY == 200

dt == FDiv(One, FInt(CONTROL_FREQUENCY))

\* the body frame's six points in the world frame, a 3 x 6 matrix, from the
\* rotation matrix rot and the position origin
WorldPoints(rot, origin, body_frame) ==
    Arr([i \in 1..3 |-> Arr([j \in 1..6 |-> Dot(rot[i] \o <<origin[i]>>, body_frame[j])])])

get_pos_full_quadcopter(quad) ==
    WorldPoints(RotMatrix(Quat(quad.state)), Pos(quad.state), quad.body_frame)

\* lines 215-216, from r = 2 * pi * t / T
PointOnCurve(r) == <<Cos(FDiv(r, Two)), Sin(r), Zero>>

\* lines 213-216: the desired position at time t
DesiredPosition(t) == PointOnCurve(FDiv(FMul(FMul(Two, Pi), t), F(15, -1)))

\* line 219, after control returned c
StepAfterControl(t, p_d_I, c) ==
    IF c.exc # "none"
    THEN [obj |-> c.obj, exc |-> c.exc, ret |-> Zeros(4), t |-> t, p_d_I |-> p_d_I]
    ELSE [update_wind(c.obj, c.ret, dt) EXCEPT !.ret = c.ret] @@ [t |-> t, p_d_I |-> p_d_I]

\* line 218
ControlAt(quad, t, p_d_I) == StepAfterControl(t, p_d_I, control(quad, p_d_I))

\* a control_propellers that takes the desired position at the time after the step
control_propellers_late(quad) ==
    ControlAt(quad, FAdd(quad.time, dt), DesiredPosition(FAdd(quad.time, dt)))

\* control_propellers(quad): the object after it (obj), the exception raised
\* (exc), its locals t and p_d_I, and prop_thrusts (ret)
control_propellers(quad) == ControlAt(quad, quad.time, DesiredPosition(quad.time))

(***************************************************************************)
(* State                                                                   *)
(***************************************************************************)

VARIABLES
    pc,             \* where the caller of the Robot is
    quad,           \* the Robot (quadcopter in main and generate_training_data)
    twin,           \* a second Robot, stepped with update where quad is stepped with update_wind
    before,         \* quad as it was before the last call
    before_twin,    \* twin as it was before the last call
    exc,            \* the exception the last call raised, "none" if it returned
    count,          \* calls made so far (driver: ticks of the current run)
    omegas_motor,   \* the rotor speeds passed to the last update / update_wind
    dt_in,          \* the dt passed to the last update / update_wind
    p_d_I,          \* the desired position passed to the last control
    omega_motor,    \* what the last control returned (prop_thrusts in control_propellers)
    t,              \* control_propellers' local t
    calls,          \* every control call so far: <<state, p_d_I, exception, returned value>>
    cmd,            \* a commanded <<thrust, tau_x, tau_y, tau_z>>
    fwd,            \* the thrust and torques update and update_wind compute from omega_motor
    wind_i,         \* generate_training_data: index of wind in wind_forces
    av_i,           \* generate_training_data: index of angular_velocity in angular_velocities
    data,           \* generate_training_data: the list data
    trajectory,     \* generate_training_data: the list trajectory
    saved           \* the <<wind, angular_velocity>> runs handed to np.save

vars == << pc, quad, twin, before, before_twin, exc, count, omegas_motor, dt_in, p_d_I,
           omega_motor, t, calls, cmd, fwd, wind_i, av_i, data, trajectory, saved >>

robotVars == << quad, twin, before, before_twin >>

callVars == << omegas_motor, dt_in, p_d_I, omega_motor, t, calls >>

mixerVars == << cmd, fwd >>

sweepVars == << wind_i, av_i, data, trajectory, saved >>

(***************************************************************************)
(* The mixer and the forward map, applied to a commanded thrust and torque *)
(***************************************************************************)

Commands ==
    { <<th, tx, ty, tz>> :
        th \in {Zero, F(5, 0), F(981, -2), F(20, 0)},
        tx \in {F(-5, -1), Zero, F(5, -1)},
        ty \in {F(-2, -1), Zero, F(5, -1)},
        tz \in {F(-1, -2), Zero, F(1, -2)} }

InitMixer ==
    /\ pc = "mixer"
    /\ cmd \in Commands
    /\ quad = Robot /\ twin = Robot /\ before = Robot /\ before_twin = Robot
    /\ exc = "none" /\ count = 0
    /\ omegas_motor = Zeros(4) /\ dt_in = Zero /\ p_d_I = Zeros(3)
    /\ omega_motor = Zeros(4) /\ t = Zero /\ calls = <<>>
    /\ fwd = <<Zeros(4), Zeros(4)>>
    /\ wind_i = 0 /\ av_i = 0 /\ data = <<>> /\ trajectory = <<>> /\ saved = {}

MixerCall ==
    /\ pc = "mixer"
    /\ omega_motor' = Mixer(quad, cmd[1], <<cmd[2], cmd[3], cmd[4]>>)
    /\ pc' = "mixed"
    /\ UNCHANGED << robotVars, exc, count, omegas_motor, dt_in, p_d_I, t, calls,
                    mixerVars, sweepVars >>

ForwardCall ==
    /\ pc = "mixed"
    /\ fwd' = <<ForwardUpdate(quad, omega_motor), ForwardUpdateWind(quad, omega_motor)>>
    /\ omegas_motor' = omega_motor
    /\ pc' = "forward"
    /\ UNCHANGED << robotVars, exc, count, dt_in, p_d_I, omega_motor, t, calls,
                    cmd, sweepVars >>

NextMixer == MixerCall \/ ForwardCall

SpecMixer == InitMixer /\ [][NextMixer]_vars

(***************************************************************************)
(* update and update_wind, stepped side by side from the same state        *)
(***************************************************************************)

MaxSteps == 2

StepVelocities == { Zeros(3), Vec(<<1, 0, -2>>, 0) }

StepQuats ==
    { Vec(<<1, 0, 0, 0>>, 0), Vec(<<6, 8, 0, 0>>, -1), Vec(<<5, 5, 5, 5>>, -1),
      Vec(<<0, 2, 0, 0>>, 0), Vec(<<3, 0, 4, 0>>, -1), Zeros(4) }

StepOmegas == { Zeros(3), Vec(<<2, -1, 3>>, 0) }

StepWinds == { <<Zeros(3), Pi>>, <<Vec(<<1, 0, 0>>, 0), Pi>> }

StepTimes == { Zero, F(5, -1) }

StepRotors == { Zeros(4), Vec(<<55, 50, 45, 50>>, 0) }

StepDts == { F(5, -3), F(5, -1) }

StepRobot(v, q, w, wind, time) ==
    [Robot EXCEPT !.state = <<One, Zero, Zero>> \o v \o q \o w,
                  !.time = time,
                  !.F0 = wind[1], !.omega_w = wind[2], !.attrs = {"F0", "omega_w"}]

InitStep ==
    /\ pc = "step"
    /\ \E v \in StepVelocities, q \in StepQuats, w \in StepOmegas,
          wind \in StepWinds, time \in StepTimes :
          /\ quad = StepRobot(v, q, w, wind, time)
          /\ twin = [Robot EXCEPT !.state = quad.state, !.time = time]
    /\ before = quad /\ before_twin = twin
    /\ exc = "none" /\ count = 0
    /\ omegas_motor = Zeros(4) /\ dt_in = Zero /\ p_d_I = Zeros(3)
    /\ omega_motor = Zeros(4) /\ t = Zero /\ calls = <<>>
    /\ cmd = Zeros(4) /\ fwd = <<Zeros(4), Zeros(4)>>
    /\ wind_i = 0 /\ av_i = 0 /\ data = <<>> /\ trajectory = <<>> /\ saved = {}

\* quad.update_wind(om, d) and twin.update(om, d)
StepBoth(om, d) ==
    /\ pc = "step"
    /\ count < MaxSteps
    /\ \E uw \in {update_wind(quad, om, d)}, u \in {update(twin, om, d)} :
           /\ quad' = uw.obj
           /\ twin' = u.obj
           /\ exc' = IF uw.exc # "none" THEN uw.exc ELSE u.exc
    /\ before' = quad
    /\ before_twin' = twin
    /\ omegas_motor' = om
    /\ dt_in' = d
    /\ count' = count + 1
    /\ UNCHANGED << pc, p_d_I, omega_motor, t, calls, mixerVars, sweepVars >>

NextStep == \E om \in StepRotors, d \in StepDts : StepBoth(om, d)

SpecStep == InitStep /\ [][NextStep]_vars

(***************************************************************************)
(* control, called on a vehicle in some state                              *)
(***************************************************************************)

MaxCalls == 3

ControlVelocities ==
    { Zeros(3), Vec(<<0, 0, 981>>, -3), Vec(<<0, 0, 2>>, 0), Vec(<<10, -10, 5>>, -1) }

ControlQuats ==
    { Vec(<<1, 0, 0, 0>>, 0), Vec(<<6, 8, 0, 0>>, -1), Vec(<<0, 2, 0, 0>>, 0), Zeros(4) }

ControlOmegas == { Zeros(3), Vec(<<2, -1, 3>>, 0) }

ControlTargets ==
    { Vec(<<1, 0, 0>>, 0), Vec(<<0, 0, 0>>, 0), Vec(<<1, 0, 1>>, 0), Vec(<<2, 1, 0>>, 0) }

InitControl ==
    /\ pc = "control"
    /\ \E v \in ControlVelocities, q \in ControlQuats, w \in ControlOmegas :
          quad = [Robot EXCEPT !.state = <<One, Zero, Zero>> \o v \o q \o w]
    /\ twin = Robot /\ before = quad /\ before_twin = Robot
    /\ exc = "none" /\ count = 0
    /\ omegas_motor = Zeros(4) /\ dt_in = Zero /\ p_d_I = Zeros(3)
    /\ omega_motor = Zeros(4) /\ t = Zero /\ calls = <<>>
    /\ cmd = Zeros(4) /\ fwd = <<Zeros(4), Zeros(4)>>
    /\ wind_i = 0 /\ av_i = 0 /\ data = <<>> /\ trajectory = <<>> /\ saved = {}

\* omega_motor = quad.control(p)
ControlCall(p) ==
    /\ pc = "control"
    /\ count < MaxCalls
    /\ \E c \in {control(quad, p)} :
           /\ quad' = c.obj
           /\ exc' = c.exc
           /\ omega_motor' = IF c.exc = "none" THEN c.ret ELSE omega_motor
           /\ calls' = Append(calls, <<quad.state, p, c.exc, c.ret>>)
    /\ before' = quad
    /\ p_d_I' = p
    /\ count' = count + 1
    /\ UNCHANGED << pc, twin, before_twin, omegas_motor, dt_in, t, mixerVars, sweepVars >>

NextControl == \E p \in ControlTargets : ControlCall(p)

SpecControl == InitControl /\ [][NextControl]_vars

(***************************************************************************)
(* main and generate_training_data                                         *)
(***************************************************************************)

\* ticks modelled of the int(simulation_time / dt) = 25000 of a run
MaxTicks == 12

\* np.arange(0, 3, 1)
wind_forces == << FInt(0), FInt(1), FInt(2) >>

\* np.arange(0.5, 2, 0.5) * 2 * np.pi
angular_velocities ==
    << FMul(FMul(F(5, -1), Two), Pi), FMul(FMul(F(10, -1), Two), Pi), FMul(FMul(F(15, -1), Two), Pi) >>

InitDriver ==
    /\ pc = "idle"
    /\ quad = Robot /\ twin = Robot /\ before = Robot /\ before_twin = Robot
    /\ exc = "none" /\ count = 0
    /\ omegas_motor = Zeros(4) /\ dt_in = Zero /\ p_d_I = Zeros(3)
    /\ omega_motor = Zeros(4) /\ t = Zero /\ calls = <<>>
    /\ cmd = Zeros(4) /\ fwd = <<Zeros(4), Zeros(4)>>
    /\ wind_i = 0 /\ av_i = 0 /\ data = <<>> /\ trajectory = <<>> /\ saved = {}

\* main(): quadcopter = Robot(); plotter.plot_animation(control_loop)
MainStart ==
    /\ pc = "idle"
    /\ quad' = Robot
    /\ before' = Robot
    /\ pc' = "main_loop"
    /\ UNCHANGED << twin, before_twin, exc, count, callVars, mixerVars, sweepVars >>

\* PLAYBACK_SPEED calls of control_propellers, stopping at an exception
RECURSIVE Ticks(_, _), TicksAfter(_, _)
Ticks(q, k) == TicksAfter(control_propellers(q), k)

TicksAfter(r, k) == IF k <= 1 \/ r.exc # "none" THEN r ELSE Ticks(r.obj, k - 1)

\* control_loop(i), called by the plotter for every frame
MainControlLoop ==
    /\ pc = "main_loop"
    /\ count < MaxTicks
    /\ \E r \in {Ticks(quad, PLAYBACK_SPEED)} :
           /\ quad' = r.obj
           /\ exc' = r.exc
           /\ t' = r.t
           /\ p_d_I' = r.p_d_I
           /\ omega_motor' = r.ret
           /\ omegas_motor' = r.ret
           /\ trajectory' = IF r.exc = "none" THEN <<get_pos_full_quadcopter(r.obj)>>
                            ELSE trajectory
           /\ pc' = IF r.exc = "none" THEN "main_loop" ELSE "raised"
    /\ before' = quad
    /\ dt_in' = dt
    /\ count' = count + 1
    /\ UNCHANGED << twin, before_twin, calls, mixerVars, wind_i, av_i, data, saved >>

\* generate_training_data(): the two for loops are entered
SweepStart ==
    /\ pc = "idle"
    /\ wind_i' = 1 /\ av_i' = 1
    /\ pc' = "sweep_next"
    /\ UNCHANGED << robotVars, exc, count, callVars, mixerVars, data, trajectory, saved >>

\* lines 272-277: a fresh Robot for this wind and angular_velocity
SweepNewRobot ==
    /\ pc = "sweep_next"
    /\ quad' = [Robot EXCEPT !.F0 = <<wind_forces[wind_i], Zero, Zero>>,
                             !.omega_w = angular_velocities[av_i],
                             !.attrs = {"F0", "omega_w"}]
    /\ before' = quad'
    /\ trajectory' = <<>>
    /\ data' = <<>>
    /\ count' = 0
    /\ pc' = "sweep_loop"
    /\ UNCHANGED << twin, before_twin, exc, callVars, mixerVars, wind_i, av_i, saved >>

\* lines 280-283: the row appended to data
Record(quadcopter) ==
    Vel(quadcopter.state) \o Quat(quadcopter.state)
        \o quadcopter.omega_motors \o quadcopter.wind_force

\* lines 279-283: one pass of the inner loop
SweepTick ==
    /\ pc = "sweep_loop"
    /\ count < MaxTicks
    /\ \E r \in {control_propellers(quad)} :
           /\ quad' = r.obj
           /\ exc' = r.exc
           /\ t' = r.t
           /\ p_d_I' = r.p_d_I
           /\ omega_motor' = r.ret
           /\ omegas_motor' = r.ret
           /\ trajectory' = IF r.exc = "none"
                            THEN Append(trajectory, get_pos_full_quadcopter(r.obj))
                            ELSE trajectory
           /\ data' = IF r.exc = "none" THEN Append(data, Record(r.obj)) ELSE data
           /\ pc' = IF r.exc = "none" THEN "sweep_loop" ELSE "raised"
    /\ before' = quad
    /\ dt_in' = dt
    /\ count' = count + 1
    /\ UNCHANGED << twin, before_twin, calls, mixerVars, wind_i, av_i, saved >>

\* lines 285-310: the run is saved and plotted, and the loops go on
SweepSave ==
    /\ pc = "sweep_loop"
    /\ count = MaxTicks
    /\ saved' = saved \cup { <<wind_forces[wind_i], angular_velocities[av_i]>> }
    /\ IF av_i < Len(angular_velocities)
       THEN av_i' = av_i + 1 /\ wind_i' = wind_i /\ pc' = "sweep_next"
       ELSE IF wind_i < Len(wind_forces)
            THEN av_i' = 1 /\ wind_i' = wind_i + 1 /\ pc' = "sweep_next"
            ELSE av_i' = av_i /\ wind_i' = wind_i /\ pc' = "done"
    /\ UNCHANGED << robotVars, exc, count, callVars, mixerVars, data, trajectory >>

NextDriver ==
    \/ MainStart
    \/ MainControlLoop
    \/ SweepStart
    \/ SweepNewRobot
    \/ SweepTick
    \/ SweepSave

SpecDriver == InitDriver /\ [][NextDriver]_vars

(***************************************************************************)
(* The claims                                                              *)
(***************************************************************************)

\* |a - b| <= tol
Close(a, b, tol) == FLe(FAbs(FSub(a, b)), tol)

\* a is b to within a tenth of b, or within 0.01
Near(a, b) == Close(a, b, FAdd(FMul(F(1, -1), FAbs(b)), F(1, -2)))

NonNegative(x) == ~x.nan /\ x.m >= 0

\* the mixer's squared rotor speeds for cmd are all >= 0: nothing is clipped
NoClipping ==
    \A i \in 1..4 : NonNegative(MixerSquares(quad, cmd[1], Tail(cmd))[i])

\* C1: for every commanded (thrust, tau_x, tau_y, tau_z) the mixer solves
\* without clipping, the thrust and torques that update (fwd[1]) and
\* update_wind (fwd[2]) compute from the mixer's rotor speeds are the
\* commanded ones (to within the rounding of the arithmetic).
C1_MixerInvertsForwardMap ==
    (pc = "forward" /\ NoClipping) =>
        \A k \in 1..2 : \A i \in 1..4 : Near(fwd[k][i], cmd[i])

\* What does hold of the round trip: thrust and tau_z come back as commanded,
\* tau_x and tau_y come back doubled (2 * arm_length against arm_length).
MixerRoundTrip ==
    (pc = "forward" /\ NoClipping) =>
        \A k \in 1..2 :
            /\ Near(fwd[k][1], cmd[1])
            /\ Near(fwd[k][2], FMul(Two, cmd[2]))
            /\ Near(fwd[k][3], FMul(Two, cmd[3]))
            /\ Near(fwd[k][4], cmd[4])

\* C2: two vehicles with the same state and clock, stepped with the same rotor
\* speeds and dt, one by update_wind with F0 = (0,0,0) and one by update, have
\* the same state and clock after every step.
C2_ZeroWindIsUpdate ==
    quad.F0 = Zeros(3) => (quad.state = twin.state /\ quad.time = twin.time)

C2_Witness ==
    /\ count >= 2 /\ exc = "none"
    /\ quad.F0 = Zeros(3)
    /\ omegas_motor # Zeros(4)
    /\ before.state # quad.state
    /\ Omega(twin.state) # Zeros(3)

\* the norm of q is 1 to within five units in the last digit kept
UnitNorm(q) == Close(Norm(q), One, F(5, 1 - Digits))

Finite(state) == ~VecHasNaN(state)

\* C3: after every step of update_wind (quad) and of update (twin) from a
\* finite state with a nonzero quaternion, with non-negative rotor speeds,
\* the step returns and the quaternion in the state has norm 1.
C3_UnitQuaternionAfterStep ==
    /\ (count > 0 /\ Finite(before.state) /\ ~ZeroNormQuat(Quat(before.state))
            /\ \A i \in 1..4 : NonNegative(omegas_motor[i]))
          => (Finite(quad.state) /\ UnitNorm(Quat(quad.state)))
    /\ (count > 0 /\ Finite(before_twin.state) /\ ~ZeroNormQuat(Quat(before_twin.state))
            /\ \A i \in 1..4 : NonNegative(omegas_motor[i]))
          => (Finite(twin.state) /\ UnitNorm(Quat(twin.state)))

C3_Witness ==
    /\ count > 0 /\ exc = "none"
    /\ Norm(Quat(before.state)) = F(2, 0)
    /\ Omega(before.state) # Zeros(3)
    /\ omegas_motor # Zeros(4)
    /\ UnitNorm(Quat(quad.state))
    /\ UnitNorm(Quat(twin.state))

\* C4: every rotor speed control returns is a number >= 0.
C4_RotorSpeedsNonNegative ==
    (count > 0 /\ exc = "none") => \A i \in 1..4 : NonNegative(omega_motor[i])

\* the desired force f has no direction (it is zero), or points straight down,
\* opposite to the body z axis [0, 0, 1] it is compared with
DegenerateDirection(f) ==
    /\ Finite(f)
    /\ \/ Norm(f).m = 0
       \/ VecAdd(<<Zero, Zero, One>>, normalized(f)) = Zeros(3)

\* C5: after every tick of a dataset run the last record of data holds the
\* velocity, the orientation, the rotor speeds commanded on that tick and the
\* wind force of that tick.
C5_RecordHoldsCommandedRotorSpeeds ==
    (pc = "sweep_loop" /\ count > 0) =>
        data[Len(data)] = Vel(quad.state) \o Quat(quad.state) \o omega_motor \o quad.wind_force

\* C6: a control call whose desired force is the zero vector (normalized gets
\* a zero-length vector) or points opposite to [0, 0, 1]
\* (quaternion_from_vectors gets antiparallel vectors) fails with an exception.
C6_DegenerateDirectionFails ==
    (count > 0 /\ DegenerateDirection(DesiredForce(before, p_d_I))) => exc # "none"

AtRest(state) == Vel(state) = Zeros(3) /\ Omega(state) = Zeros(3)

\* velocity dt * (0, 0, -9.81); position, orientation and angular velocity kept
FreeFall(state0, state1, d) ==
    /\ Vel(state1) = VecScale(d, <<Zero, Zero, F(-981, -2)>>)
    /\ Pos(state1) = Pos(state0)
    /\ Quat(state1) = Quat(state0)
    /\ Omega(state1) = Omega(state0)

\* C7: one step from rest with a unit quaternion and all rotor speeds zero
\* gives velocity dt * (0, 0, -9.81) and keeps position, orientation and
\* angular velocity: for update (twin), and for update_wind (quad) when the
\* wind force of the step is zero.
C7_FreeFallFromRest ==
    /\ (count > 0 /\ omegas_motor = Zeros(4) /\ AtRest(before_twin.state)
            /\ Norm(Quat(before_twin.state)) = One)
          => FreeFall(before_twin.state, twin.state, dt_in)
    /\ (count > 0 /\ omegas_motor = Zeros(4) /\ AtRest(before.state)
            /\ Norm(Quat(before.state)) = One /\ quad.wind_force = Zeros(3))
          => FreeFall(before.state, quad.state, dt_in)

C7_Witness ==
    /\ count = 1 /\ exc = "none"
    /\ omegas_motor = Zeros(4)
    /\ AtRest(before.state)
    /\ Quat(before.state) = Vec(<<6, 8, 0, 0>>, -1)
    /\ quad.F0 # Zeros(3) /\ quad.wind_force = Zeros(3)
    /\ Vel(quad.state)[3] = FMul(dt_in, F(-981, -2))
    /\ Vel(twin.state)[3] = FMul(dt_in, F(-981, -2))

\* C8: a control call leaves the Robot (state, clock, stored rotor speeds,
\* parameters) as it was, and any two calls made with the same state and the
\* same desired position ended the same way and returned the same rotor
\* speeds, whatever was called in between.
C8_ControlIsPure ==
    /\ count > 0 => quad = before
    /\ \A i, j \in DOMAIN calls :
          (calls[i][1] = calls[j][1] /\ calls[i][2] = calls[j][2])
              => (calls[i][3] = calls[j][3] /\ calls[i][4] = calls[j][4])

C8_Witness ==
    /\ Len(calls) >= 3
    /\ calls[1][2] = calls[Len(calls)][2]
    /\ calls[1][2] # calls[2][2]
    /\ exc = "none"
    /\ Finite(omega_motor) /\ omega_motor # Zeros(4)
    /\ omega_motor = calls[1][4]

C10_WindParametersSet ==
    count > 0 => {"F0", "omega_w"} \subseteq before.attrs

====
